---- MODULE Spec2Model ----
(***************************************************************************)
(* A model of the synapse-rag backend: the sliding-window chunker          *)
(* (chroma_setup._split_text), the ingestion helpers that write chunks to  *)
(* the Chroma collection, the scoped query (chroma_setup.query_chunks) and *)
(* the HTTP handlers of main.py that drive them.                           *)
(*                                                                         *)
(* A text is a sequence of one-character strings, so that slicing,         *)
(* stripping and replacing are computed the way Python computes them.      *)
(*                                                                         *)
(* Two specifications share the module.  SpecChunk runs _split_text one    *)
(* loop iteration per step, for every small text and every small           *)
(* (chunk_size, overlap), valid or not.  Spec runs the service: the boot   *)
(* seeding and then any sequence of /ingest-text, /ingest-file and /search *)
(* requests against the collection.                                        *)
(***************************************************************************)
EXTENDS Integers, Sequences, FiniteSets, TLC

VARIABLES
    \* ---- one call of _split_text (SpecChunk) ----
    text,         \* the argument `text`
    chunk_size,   \* the argument `chunk_size`
    overlap,      \* the argument `overlap`
    start,        \* the local `start`
    chunks,       \* the local `chunks`
    starts,       \* history: the value of `start` at each append
    ends,         \* history: the value of `end` at each append
    pc,           \* "entry", "loop", "done"; "idle" under Spec
    \* ---- the service (Spec) ----
    collection,   \* the Chroma collection: id -> [text, source, user_id, domain]
    booted,       \* whether the boot block has run
    nOps,         \* number of ingestion requests served so far
    last          \* the last request served and its outcome

chunkVars == <<text, chunk_size, overlap, start, chunks, starts, ends, pc>>
serviceVars == <<collection, booted, nOps, last>>
vars == <<text, chunk_size, overlap, start, chunks, starts, ends, pc, collection, booted, nOps, last>>

-----------------------------------------------------------------------------
(* Program constants *)

CHUNK_SIZE == 500
CHUNK_OVERLAP == 50
\* top_k=5 in search_rag's call of query_chunks
SEARCH_TOP_K == 5

(* Bounds of the model *)

\* longest text of the exhaustive chunker inputs
MaxLen == 4
\* largest chunk_size (and overlap) of the exhaustive chunker inputs
MaxChunk == 3
\* ingestion requests per run of the service
MaxOps == 2

\* loop iterations after which a run of the chunker is cut off; more than any
\* terminating call on a text of at most MaxLen characters needs
MaxIter == MaxLen + 2

-----------------------------------------------------------------------------
(* Python values *)

None == "None"

Min(a, b) == IF a <= b THEN a ELSE b
Max(a, b) == IF a >= b THEN a ELSE b

\* str.isspace() for the characters the model uses
Whitespace == {" ", "\t", "\n"}

Rep(c, k) == [i \in 1..k |-> c]

\* text[lo:hi] with Python's rules for negative and out-of-range indices
PyIndex(i, n) == IF i < 0 THEN Max(i + n, 0) ELSE Min(i, n)
PySlice(s, lo, hi) == SubSeq(s, PyIndex(lo, Len(s)) + 1, PyIndex(hi, Len(s)))

\* not s.strip()
IsBlank(s) == \A i \in 1..Len(s) : s[i] \in Whitespace

\* s.strip()
Strip(s) ==
    IF IsBlank(s) THEN <<>>
    ELSE LET first == CHOOSE i \in 1..Len(s) :
                          s[i] \notin Whitespace /\ \A j \in 1..(i - 1) : s[j] \in Whitespace
             final == CHOOSE i \in 1..Len(s) :
                          s[i] \notin Whitespace /\ \A j \in (i + 1)..Len(s) : s[j] \in Whitespace
         IN  SubSeq(s, first, final)

\* truthiness of an Optional[str] that names a user or a domain
Truthy(x) == x # None /\ x # ""

\* `last` before any request
NoRequest ==
    [op |-> "none", req |-> <<>>, status |-> 0, count |-> 0, ids |-> <<>>, nLocal |-> 0,
     chunks |-> <<>>, failed |-> FALSE, repeat |-> FALSE]

-----------------------------------------------------------------------------
(* _split_text *)

\* end = min(start + chunk_size, n)
WindowEnd(t, size, from) == Min(from + size, Len(t))

\* chunk = text[start:end]
WindowChunk(t, from, to) == PySlice(t, from, to)

\* the mutant of NextStart that forgets the overlap
NextStart_NoOverlap(to, ov) == to

\* start = end - overlap
NextStart(to, ov) == to - ov

RECURSIVE SplitLoop(_, _, _, _, _)
\* the while loop of _split_text, from `start` = from with `chunks` = acc
SplitLoop(t, size, ov, from, acc) ==
    IF ~(from < Len(t)) THEN acc
    ELSE LET to == WindowEnd(t, size, from)
             acc2 == Append(acc, WindowChunk(t, from, to))
         IN  IF to = Len(t) THEN acc2
             ELSE SplitLoop(t, size, ov, NextStart(to, ov), acc2)

\* _split_text(text, chunk_size, overlap)
_split_text(t, size, ov) ==
    IF IsBlank(t) THEN <<>> ELSE SplitLoop(t, size, ov, 0, <<>>)

-----------------------------------------------------------------------------
(* Strings *)

\* s.replace(a, b) for single characters
Replace(s, a, b) == [i \in 1..Len(s) |-> IF s[i] = a THEN b ELSE s[i]]

Digits == <<"0", "1", "2", "3", "4", "5", "6", "7", "8", "9">>

RECURSIVE Decimal(_)
\* str(n) for n >= 0
Decimal(n) == IF n < 10 THEN <<Digits[n + 1]>> ELSE Decimal(n \div 10) \o <<Digits[(n % 10) + 1]>>

UpperCase == <<"A", "B", "C", "D", "E", "F", "G", "H", "I", "J", "K", "L", "M",
               "N", "O", "P", "Q", "R", "S", "T", "U", "V", "W", "X", "Y", "Z">>
LowerCase == <<"a", "b", "c", "d", "e", "f", "g", "h", "i", "j", "k", "l", "m",
               "n", "o", "p", "q", "r", "s", "t", "u", "v", "w", "x", "y", "z">>

LowerChar(c) ==
    IF \E i \in 1..26 : UpperCase[i] = c
    THEN LowerCase[CHOOSE i \in 1..26 : UpperCase[i] = c]
    ELSE c

\* s.lower()
Lower(s) == [i \in 1..Len(s) |-> LowerChar(s[i])]

\* s.endswith(suffix)
EndsWith(s, suffix) ==
    /\ Len(suffix) <= Len(s)
    /\ SubSeq(s, Len(s) - Len(suffix) + 1, Len(s)) = suffix

\* sub in s
Contains(s, sub) ==
    \E i \in 1..(Len(s) - Len(sub) + 1) : SubSeq(s, i, i + Len(sub) - 1) = sub

\* os.path.splitext(filename)[1]: from the last dot on, "" without one or when
\* the only dots lead the name
SplitExt(name) ==
    LET dots == {i \in 1..Len(name) : name[i] = "." /\ \E j \in 1..(i - 1) : name[j] # "."}
    IN  IF dots = {} THEN <<>>
        ELSE SubSeq(name, CHOOSE i \in dots : \A j \in dots : j <= i, Len(name))

-----------------------------------------------------------------------------
(* The Chroma collection *)

EmptyCollection == [id \in {} |-> id]

\* the ids of a batch
IdSet(ids) == {ids[i] : i \in 1..Len(ids)}

\* collection.add(ids=, documents=, metadatas=) of a chromadb PersistentClient
\* collection: a record whose id is already stored is left as it is (add is no
\* upsert), the others are inserted
CollectionAdd(store, ids, docs, metas) ==
    [id \in (DOMAIN store) \cup IdSet(ids) |->
        IF id \in DOMAIN store THEN store[id]
        ELSE LET i == CHOOSE j \in 1..Len(ids) : ids[j] = id
             IN  [text |-> docs[i], source |-> metas[i].source,
                  user_id |-> metas[i].user_id, domain |-> metas[i].domain]]

\* the records a `where` of equalities selects; a key that is absent from
\* `where` (None here) selects every record
WhereMatches(store, whereUser, whereDomain) ==
    {id \in DOMAIN store :
        /\ (whereUser # None => store[id].user_id = whereUser)
        /\ (whereDomain # None => store[id].domain = whereDomain)}

RECURSIVE SetToSeq(_)
\* the elements of a finite set in a fixed order
SetToSeq(S) ==
    IF S = {} THEN <<>>
    ELSE LET x == CHOOSE y \in S : TRUE IN <<x>> \o SetToSeq(S \ {x})

\* collection.query(query_texts=, n_results=, where=): the answers the store can
\* give, each a list of at most n_results of the selected records.  Which of them
\* are nearest to the query is the embedding model's business: every choice of
\* min(n_results, number selected) records is an answer.
CollectionQuery(store, n_results, whereUser, whereDomain) ==
    LET sel == WhereMatches(store, whereUser, whereDomain)
        k == Min(n_results, Cardinality(sel))
    IN  {SetToSeq(hits) : hits \in {h \in SUBSET sel : Cardinality(h) = k}}

-----------------------------------------------------------------------------
(* ingest_text *)

\* f"{base}_{idx}"
FragmentId(base, idx) == base \o <<"_">> \o Decimal(idx)

\* the mutant of ChunkIds that numbers the chunks after the records stored
ChunkIds_FromCount(store, base, k) ==
    [i \in 1..k |-> FragmentId(base, Cardinality(DOMAIN store) + i - 1)]

\* the ids of the k chunks of one ingest_text call: enumerate() numbers them
\* from 0, whatever the collection holds
ChunkIds(store, base, k) == [i \in 1..k |-> FragmentId(base, i - 1)]

\* the metadata ingest_text and load_documents_from_folder attach
Metadata(source_name, user_id, domain) ==
    [source |-> source_name,
     user_id |-> IF Truthy(user_id) THEN user_id ELSE "global",
     domain |-> IF Truthy(domain) THEN domain ELSE "general"]

\* ingest_text(text, source_name, user_id, domain) on `store`: the count it
\* returns, the ids it assigns and the collection afterwards
ingest_text(store, t, source_name, user_id, domain) ==
    LET stripped == Strip(t)
        cks == _split_text(stripped, CHUNK_SIZE, CHUNK_OVERLAP)
        base == Replace(source_name, " ", "_")
        ids == ChunkIds(store, base, Len(cks))
        metas == [i \in 1..Len(cks) |-> Metadata(source_name, user_id, domain)]
    IN  IF stripped = <<>> \/ cks = <<>>
        THEN [count |-> 0, ids |-> <<>>, docs |-> <<>>, store |-> store]
        ELSE [count |-> Len(cks), ids |-> ids, docs |-> cks,
              store |-> CollectionAdd(store, ids, cks, metas)]

-----------------------------------------------------------------------------
(* query_chunks *)

\* the mutant of QueryFailed that lets the store's exception out
QueryFailed_Raise == [error |-> TRUE, chunks |-> <<>>]

\* lines 245-247: except Exception: return []
QueryFailed == [error |-> FALSE, chunks |-> <<>>]

\* lines 255-265: the dicts built from the store's documents and metadatas
HitDicts(store, hits) ==
    [i \in 1..Len(hits) |->
        [text |-> store[hits[i]].text, source |-> store[hits[i]].source,
         user_id |-> store[hits[i]].user_id, domain |-> store[hits[i]].domain]]

\* lines 230-234: a key of `where` for each truthy argument
WhereOf(x) == IF Truthy(x) THEN x ELSE None

\* query_chunks(query_text, top_k, user_id, domain): the results it can return.
\* storeFails says whether collection.query raises.
query_chunks(store, query_text, top_k, user_id, domain, storeFails) ==
    IF Strip(query_text) = <<>> THEN {[error |-> FALSE, chunks |-> <<>>]}
    ELSE IF storeFails THEN {QueryFailed}
    ELSE {[error |-> FALSE, chunks |-> HitDicts(store, hits)] :
             hits \in CollectionQuery(store, top_k, WhereOf(user_id), WhereOf(domain))}

-----------------------------------------------------------------------------
(* base64.b64decode and the text extractors of main.py *)

B64Alphabet ==
    <<"A", "B", "C", "D", "E", "F", "G", "H", "I", "J", "K", "L", "M",
      "N", "O", "P", "Q", "R", "S", "T", "U", "V", "W", "X", "Y", "Z",
      "a", "b", "c", "d", "e", "f", "g", "h", "i", "j", "k", "l", "m",
      "n", "o", "p", "q", "r", "s", "t", "u", "v", "w", "x", "y", "z",
      "0", "1", "2", "3", "4", "5", "6", "7", "8", "9", "+", "/">>

IsB64Char(c) == \E i \in 1..64 : B64Alphabet[i] = c
B64Value(c) == (CHOOSE i \in 1..64 : B64Alphabet[i] = c) - 1

\* a character outside ASCII
NonAscii == {"<U+00E9>"}

\* b64decode is called without validate=True: characters outside the alphabet
\* are skipped
SkipsForeign == TRUE

Decoded(bytes) == [error |-> "none", data |-> bytes]
DecodeError(name) == [error |-> name, data |-> <<>>]

RECURSIVE A2B(_, _, _, _, _, _)
\* binascii.a2b_base64 from position i: quad is the position in the current group
\* of four, left the bits left over, pads the '=' seen in a row, out the bytes so
\* far
A2B(s, i, quad, left, pads, out) ==
    IF i > Len(s)
    THEN IF quad # 0 THEN DecodeError("binascii.Error") ELSE Decoded(out)
    ELSE LET c == s[i] IN
         IF c = "="
         THEN IF quad >= 2 /\ quad + pads + 1 >= 4 THEN Decoded(out)
              ELSE A2B(s, i + 1, quad, left, IF quad >= 2 THEN pads + 1 ELSE pads, out)
         ELSE IF ~IsB64Char(c)
         THEN IF SkipsForeign THEN A2B(s, i + 1, quad, left, pads, out)
              ELSE DecodeError("binascii.Error")
         ELSE LET v == B64Value(c) IN
              CASE quad = 0 -> A2B(s, i + 1, 1, v, 0, out)
                [] quad = 1 -> A2B(s, i + 1, 2, v % 16, 0, Append(out, left * 4 + v \div 16))
                [] quad = 2 -> A2B(s, i + 1, 3, v % 4, 0, Append(out, left * 16 + v \div 4))
                [] quad = 3 -> A2B(s, i + 1, 0, 0, 0, Append(out, left * 64 + v))

\* base64.b64decode(s) for a str: a str that is not ASCII raises ValueError
b64decode(s) ==
    IF \E i \in 1..Len(s) : s[i] \in NonAscii THEN DecodeError("ValueError")
    ELSE A2B(s, 1, 0, 0, 0, <<>>)

\* the characters of codes 32..126 (code 96 is written <grave>)
Printable ==
    <<" ", "!", "\"", "#", "$", "%", "&", "'", "(", ")", "*", "+", ",", "-", ".", "/",
      "0", "1", "2", "3", "4", "5", "6", "7", "8", "9", ":", ";", "<", "=", ">", "?",
      "@", "A", "B", "C", "D", "E", "F", "G", "H", "I", "J", "K", "L", "M", "N", "O",
      "P", "Q", "R", "S", "T", "U", "V", "W", "X", "Y", "Z", "[", "\\", "]", "^", "_",
      "<grave>", "a", "b", "c", "d", "e", "f", "g", "h", "i", "j", "k", "l", "m", "n", "o",
      "p", "q", "r", "s", "t", "u", "v", "w", "x", "y", "z", "{", "|", "}", "~">>

\* chr(b) for an ASCII byte; the control characters other than tab and newline
\* are one stand-in
Chr(b) ==
    IF b \in 32..126 THEN Printable[b - 31]
    ELSE IF b = 9 THEN "\t" ELSE IF b = 10 THEN "\n" ELSE "<ctl>"

RECURSIVE DecodeUtf8(_)
\* data.decode("utf-8", errors="ignore") for bytes that hold no multi-byte
\* sequence: a byte above 127 is dropped
DecodeUtf8(data) ==
    IF data = <<>> THEN <<>>
    ELSE (IF Head(data) < 128 THEN <<Chr(Head(data))>> ELSE <<>>) \o DecodeUtf8(Tail(data))

\* what a document library (PyPDF2, python-docx, textract) does with the bytes:
\* it raises (or is not installed), or it returns some text
LibraryOutcomes == {[kind |-> "raise", text |-> <<>>], [kind |-> "text", text |-> <<"P">>]}

\* no library is called
NoLibrary == [kind |-> "unused", text |-> <<>>]

IsPdf(filename, mime_type) ==
    \/ EndsWith(Lower(filename), <<".", "p", "d", "f">>)
    \/ (mime_type # None /\ Contains(mime_type, <<"p", "d", "f">>))

IsDocx(filename, mime_type) ==
    \/ EndsWith(Lower(filename), <<".", "d", "o", "c", "x">>)
    \/ (mime_type # None /\ Contains(mime_type, <<"w", "o", "r", "d">>))

IsTxt(filename, mime_type) ==
    \/ EndsWith(Lower(filename), <<".", "t", "x", "t">>)
    \/ (mime_type # None /\ Contains(mime_type, <<"t", "e", "x", "t">>))

\* whether extract_text_from_bytes calls a library for this file: every branch
\* but the .txt one does
UsesLibrary(filename, mime_type) ==
    IsPdf(filename, mime_type) \/ IsDocx(filename, mime_type) \/ ~IsTxt(filename, mime_type)

\* extract_text_from_bytes(data, filename, mime_type): the text, or status 400
\* for the HTTPException of line 148.  lib is the outcome of the library call.
extract_text_from_bytes(data, filename, mime_type, lib) ==
    IF IsPdf(filename, mime_type) \/ IsDocx(filename, mime_type)
    THEN IF lib.kind = "raise" THEN [status |-> 400, text |-> <<>>]
         ELSE [status |-> 200, text |-> Strip(lib.text)]
    ELSE IF IsTxt(filename, mime_type)
    THEN [status |-> 200, text |-> Strip(DecodeUtf8(data))]
    ELSE \* _extract_generic: textract when it is there and works, else UTF-8
         IF lib.kind = "text" THEN [status |-> 200, text |-> Strip(lib.text)]
         ELSE [status |-> 200, text |-> Strip(DecodeUtf8(data))]

-----------------------------------------------------------------------------
(* SpecChunk: one call of _split_text, one loop iteration per step *)

\* the service is not running
ServiceIdle ==
    /\ collection = EmptyCollection
    /\ booted = FALSE
    /\ nOps = 0
    /\ last = NoRequest

TextAlphabet == {"a", " "}
SmallTexts == UNION {[1..k -> TextAlphabet] : k \in 0..MaxLen}
\* "A" * 1200
ScenarioText == Rep("A", 1200)

ChunkInit ==
    /\ \/ /\ text \in SmallTexts
          /\ chunk_size \in 1..MaxChunk
          /\ overlap \in 0..MaxChunk
       \/ /\ text = ScenarioText
          /\ chunk_size = CHUNK_SIZE
          /\ overlap = CHUNK_OVERLAP
    /\ start = 0
    /\ chunks = <<>>
    /\ starts = <<>>
    /\ ends = <<>>
    /\ pc = "entry"
    /\ ServiceIdle

\* lines 32-38: the blank test, then chunks = [], start = 0, n = len(text)
SplitEnter ==
    /\ pc = "entry"
    /\ pc' = IF IsBlank(text) THEN "done" ELSE "loop"
    /\ UNCHANGED <<text, chunk_size, overlap, start, chunks, starts, ends>>
    /\ UNCHANGED serviceVars

\* lines 40-49: the loop test and one pass through the loop body
SplitIterate ==
    /\ pc = "loop"
    /\ Len(chunks) < MaxIter
    /\ IF ~(start < Len(text))
       THEN /\ pc' = "done"
            /\ UNCHANGED <<start, chunks, starts, ends>>
       ELSE LET to == WindowEnd(text, chunk_size, start)
            IN  /\ chunks' = Append(chunks, WindowChunk(text, start, to))
                /\ starts' = Append(starts, start)
                /\ ends' = Append(ends, to)
                /\ IF to = Len(text)
                   THEN pc' = "done" /\ start' = start
                   ELSE pc' = "loop" /\ start' = NextStart(to, overlap)
    /\ UNCHANGED <<text, chunk_size, overlap>>
    /\ UNCHANGED serviceVars

ChunkNext == SplitEnter \/ SplitIterate

SpecChunk == ChunkInit /\ [][ChunkNext]_vars

-----------------------------------------------------------------------------
(* Spec: the service *)

\* the texts posted to /ingest-text: blank, one chunk once stripped, and three
\* chunks the middle one of which is a run of spaces
GapText == <<"x">> \o Rep(" ", 949) \o <<"y">>
IngestTexts == {<<" ">>, <<" ", "B", " ">>, GapText}
SourceNames == {<<"d", " ", "1">>, <<"d", "_", "1">>, <<"n">>}
UserIds == {None, "alice"}
Domains == {None, "math"}

\* the base64_data posted to /ingest-file: "QQ==" (b"A"), "QQ=" (bad padding),
\* "Q!Q==" and "!!!!" (characters outside the alphabet), and a str that is not
\* ASCII
B64Inputs ==
    {<<"Q", "Q", "=", "=">>, <<"Q", "Q", "=">>, <<"Q", "!", "Q", "=", "=">>,
     <<"!", "!", "!", "!">>, <<"<U+00E9>">>}
\* the (filename, mime_type) of the files posted
FileKinds ==
    {<<<<"a", ".", "t", "x", "t">>, None>>, <<<<"A", ".", "P", "D", "F">>, None>>,
     <<<<"u", "p">>, None>>, <<<<"u", "p">>, <<"t", "e", "x", "t", "/", "p", "l", "a", "i", "n">>>>}
\* the user_id and domain posted with a file
FileUserIds == {None}
FileDomains == {None}

\* a field the request leaves out
Absent == "Absent"
Queries == {<<"q">>, <<" ">>}
SearchUserIds == {Absent, None, "alice"}
SearchDomains == {Absent, None, "math"}

\* the files the seed folder can hold, each with the text its reader returns
FolderFiles ==
    {[name |-> <<"s", ".", "t", "x", "t">>, text |-> <<" ", "S">>],
     [name |-> <<"b", ".", "m", "d">>, text |-> <<" ">>],
     [name |-> <<"p", ".", "p", "n", "g">>, text |-> <<"x">>]}

Init ==
    /\ text = <<>>
    /\ chunk_size = CHUNK_SIZE
    /\ overlap = CHUNK_OVERLAP
    /\ start = 0
    /\ chunks = <<>>
    /\ starts = <<>>
    /\ ends = <<>>
    /\ pc = "idle"
    /\ ServiceIdle

\* lines 117-147 of chroma_setup.py for one file: its chunk dicts
FileDocs(file) ==
    LET ext == Lower(SplitExt(file.name))
        supported == ext \in {<<".", "t", "x", "t">>, <<".", "m", "d">>,
                              <<".", "p", "d", "f">>, <<".", "d", "o", "c", "x">>}
        cks == _split_text(file.text, CHUNK_SIZE, CHUNK_OVERLAP)
    IN  IF ~supported \/ IsBlank(file.text) THEN <<>>
        ELSE [i \in 1..Len(cks) |->
                 [id |-> FragmentId(file.name, i - 1), text |-> cks[i],
                  meta |-> Metadata(file.name, None, None)]]

RECURSIVE load_documents_from_folder(_)
\* load_documents_from_folder(): the chunk dicts of the files, in listing order
load_documents_from_folder(files) ==
    IF files = <<>> THEN <<>>
    ELSE FileDocs(Head(files)) \o load_documents_from_folder(Tail(files))

\* ingest_documents_from_folder() on `store`
ingest_documents_from_folder(store, files) ==
    LET docs == load_documents_from_folder(files)
        ids == [i \in 1..Len(docs) |-> docs[i].id]
        texts == [i \in 1..Len(docs) |-> docs[i].text]
        metas == [i \in 1..Len(docs) |-> docs[i].meta]
    IN  IF docs = <<>> THEN [count |-> 0, ids |-> <<>>, docs |-> <<>>, store |-> store]
        ELSE [count |-> Len(texts), ids |-> ids, docs |-> texts,
              store |-> CollectionAdd(store, ids, texts, metas)]

\* the boot block (main.py 49-59; chroma_setup.py 273-280): an empty
\* collection is seeded from the documents folder
Boot ==
    /\ ~booted
    /\ \E folder \in SUBSET FolderFiles :
         LET r == IF Cardinality(DOMAIN collection) = 0
                  THEN ingest_documents_from_folder(collection, SetToSeq(folder))
                  ELSE [count |-> 0, ids |-> <<>>, docs |-> <<>>, store |-> collection]
         IN  /\ collection' = r.store
             /\ last' = [NoRequest EXCEPT !.op = "boot", !.req = folder, !.count = r.count,
                                          !.ids = r.ids]
    /\ booted' = TRUE
    /\ UNCHANGED nOps
    /\ UNCHANGED chunkVars

\* `payload.user_id or "global"`
OrDefault(x, default) == IF Truthy(x) THEN x ELSE default

\* POST /ingest-text
ingest_text_endpoint ==
    /\ booted
    /\ nOps < MaxOps
    /\ \E t \in IngestTexts, source_name \in SourceNames, user_id \in UserIds, domain \in Domains :
         LET req == [text |-> t, source_name |-> source_name, user_id |-> user_id,
                     domain |-> domain]
             r == ingest_text(collection, t, source_name, OrDefault(user_id, "global"),
                              OrDefault(domain, "general"))
         IN  /\ collection' = r.store
             /\ last' = [NoRequest EXCEPT !.op = "ingest_text", !.req = req, !.status = 200,
                                          !.count = r.count, !.ids = r.ids,
                                          !.repeat = (last.op = "ingest_text" /\ last.req = req)]
    /\ nOps' = nOps + 1
    /\ UNCHANGED booted
    /\ UNCHANGED chunkVars

\* POST /ingest-file
ingest_file_endpoint ==
    /\ booted
    /\ nOps < MaxOps
    /\ \E base64_data \in B64Inputs, kind \in FileKinds, user_id \in FileUserIds,
          domain \in FileDomains, lib \in LibraryOutcomes \cup {NoLibrary} :
         /\ (lib = NoLibrary) <=> ~UsesLibrary(kind[1], kind[2])
         /\ LET filename == kind[1]
                mime_type == kind[2]
                req == [base64_data |-> base64_data, filename |-> filename,
                        mime_type |-> mime_type, user_id |-> user_id, domain |-> domain,
                        lib |-> lib]
                decoded == b64decode(base64_data)
                ext == extract_text_from_bytes(decoded.data, filename, mime_type, lib)
                r == ingest_text(collection, ext.text, filename, OrDefault(user_id, "global"),
                                 OrDefault(domain, "general"))
                failed(status) == /\ collection' = collection
                                  /\ last' = [NoRequest EXCEPT !.op = "ingest_file", !.req = req,
                                                               !.status = status]
            IN  IF decoded.error = "binascii.Error" THEN failed(400)
                ELSE IF decoded.error = "ValueError" THEN failed(500)
                ELSE IF ext.status = 400 THEN failed(400)
                ELSE IF ext.text = <<>> THEN failed(400)
                ELSE /\ collection' = r.store
                     /\ last' = [NoRequest EXCEPT !.op = "ingest_file", !.req = req,
                                                  !.status = 200, !.count = r.count,
                                                  !.ids = r.ids]
    /\ nOps' = nOps + 1
    /\ UNCHANGED booted
    /\ UNCHANGED chunkVars

\* the mutant of SearchDefault that leaves an omitted field None
SearchDefault_None(x, default) == IF x = Absent THEN None ELSE x

\* SearchQuery: user_id: Optional[str] = "global", domain: Optional[str] = "general"
SearchDefault(x, default) == IF x = Absent THEN default ELSE x

\* a web result as the coverage heuristic would append it
WebResult == [text |-> <<"w">>, source |-> <<"w", "e", "b", ":">>, user_id |-> "web",
              domain |-> "general"]

\* the mutant of ResponseChunks that falls back to the web on thin coverage
ResponseChunks_WebFallback(local) ==
    IF Len(local) < Max(2, SEARCH_TOP_K \div 2) THEN Append(local, WebResult) ELSE local

\* "chunks": chunks in the response of search_rag: what query_chunks returned
ResponseChunks(local) == local

\* POST /search.  SearchQuery declares no use_web and no top_k: whatever a
\* request says of them is dropped before the handler runs, so the request of
\* the model has neither.
search_rag ==
    /\ booted
    /\ \E query \in Queries, user_id \in SearchUserIds, domain \in SearchDomains,
          storeFails \in BOOLEAN :
         /\ Strip(query) = <<>> => (~storeFails /\ user_id = Absent /\ domain = Absent)
         /\ \E r \in query_chunks(collection, query, SEARCH_TOP_K,
                                  SearchDefault(user_id, "global"),
                                  SearchDefault(domain, "general"), storeFails) :
              last' = [NoRequest EXCEPT
                          !.op = "search",
                          !.req = [query |-> query, user_id |-> user_id, domain |-> domain],
                          !.status = IF r.error THEN 500 ELSE 200,
                          !.failed = storeFails,
                          !.nLocal = Len(r.chunks),
                          !.chunks = IF r.error THEN <<>> ELSE ResponseChunks(r.chunks)]
    /\ UNCHANGED <<collection, booted, nOps>>
    /\ UNCHANGED chunkVars

Next == Boot \/ ingest_text_endpoint \/ ingest_file_endpoint \/ search_rag

Spec == Init /\ [][Next]_vars

-----------------------------------------------------------------------------
(* Claims about _split_text, under SpecChunk *)

\* C1. The chunker never loops indefinitely: a call with chunk_size > overlap >= 0
\* terminates, and a call with overlap >= chunk_size fails fast instead of
\* iterating forever.  Either way the loop body runs no more often than the
\* text has characters (once for a text of one character).
C1_NeverLoopsIndefinitely == Len(chunks) <= Max(1, Len(text))

\* C3, as claimed: the i-th window starts at i * (chunk_size - overlap), the
\* windows stop once an end reaches the text length, and "A" * 1200 with
\* chunk_size 500 and overlap 50 gives 3 chunks at 0, 450, 900 of lengths 500,
\* 500, 250.
C3_ScenarioAsClaimed ==
    /\ \A i \in 1..Len(starts) : starts[i] = (i - 1) * (chunk_size - overlap)
    /\ (text = ScenarioText /\ chunk_size = 500 /\ overlap = 50 /\ pc = "done")
          => /\ starts = <<0, 450, 900>>
             /\ [i \in 1..Len(chunks) |-> Len(chunks[i])] = <<500, 500, 250>>

\* C3, amended: the i-th window starts at i * (chunk_size - overlap) and ends
\* chunk_size further on or at the end of the text, only the last window ends
\* at the end of the text, each chunk is the text of its window, and "A" * 1200
\* with chunk_size 500 and overlap 50 gives 3 chunks at 0, 450, 900 of lengths
\* 500, 500, 300.
C3_WindowOffsets ==
    /\ Len(starts) = Len(chunks) /\ Len(ends) = Len(chunks)
    /\ \A i \in 1..Len(chunks) :
          /\ starts[i] = (i - 1) * (chunk_size - overlap)
          /\ ends[i] = Min(starts[i] + chunk_size, Len(text))
          /\ (i < Len(chunks) => ends[i] < Len(text))
          /\ (chunk_size > overlap => chunks[i] = SubSeq(text, starts[i] + 1, ends[i]))
    /\ (pc = "done" /\ chunks # <<>>) => ends[Len(chunks)] = Len(text)
    /\ (text = ScenarioText /\ chunk_size = 500 /\ overlap = 50 /\ pc = "done")
          => /\ starts = <<0, 450, 900>>
             /\ [i \in 1..Len(chunks) |-> Len(chunks[i])] = <<500, 500, 300>>

\* the call on "A" * 1200 has returned
C3_Witness == text = ScenarioText /\ pc = "done" /\ Len(chunks) = 3

-----------------------------------------------------------------------------
(* Claims about the service, under Spec *)

\* the fragment a record of the collection is, as a search returns it
FragmentOf(rec) ==
    [text |-> rec.text, source |-> rec.source, user_id |-> rec.user_id, domain |-> rec.domain]

\* the fragments in a list of search results
ChunkSet(cs) == {cs[i] : i \in 1..Len(cs)}

\* the last request was a /search that reached the store and got its answer
Searched == last.op = "search" /\ Strip(last.req.query) # <<>> /\ ~last.failed

\* C2. Every fragment in the vector store has a text that is non-empty, not
\* whitespace-only, trimmed of leading and trailing whitespace, and at most
\* chunk_size long.
C2_StoredFragmentsTrimmed ==
    \A id \in DOMAIN collection :
        LET t == collection[id].text
        IN  t # <<>> /\ ~IsBlank(t) /\ Strip(t) = t /\ Len(t) <= CHUNK_SIZE

\* C4. Calling ingest_text a second time with the same text, source_name,
\* user_id and domain assigns the same ids as the first call, leaves the
\* collection as the first call left it, and does not fail.
C4_Idempotent ==
    [][(last'.op = "ingest_text" /\ last.op = "ingest_text" /\ nOps' = nOps + 1
            /\ last'.req = last.req)
         => (last'.ids = last.ids /\ last'.count = last.count /\ last'.status = 200
               /\ collection' = collection)]_vars

\* a text of three chunks has been ingested twice in a row
C4_Witness == last.op = "ingest_text" /\ last.repeat /\ last.count = 3

\* C5. A fragment ingested with user_id u and domain d is in the store and is
\* returned by a search scoped to (u, d) whose top_k is at least the number of
\* stored fragments, and by no search scoped to another domain.
C5_ScopedRoundTrip ==
    (last.op = "ingest_text" /\ last.status = 200) =>
        LET u == OrDefault(last.req.user_id, "global")
            d == OrDefault(last.req.domain, "general")
            k == Cardinality(DOMAIN collection)
            docs == _split_text(Strip(last.req.text), CHUNK_SIZE, CHUNK_OVERLAP)
        IN  \A i \in 1..Len(docs) :
              LET f == [text |-> docs[i], source |-> last.req.source_name,
                        user_id |-> u, domain |-> d]
              IN  /\ \E id \in DOMAIN collection : FragmentOf(collection[id]) = f
                  /\ \A r \in query_chunks(collection, <<"q">>, k, u, d, FALSE) :
                        f \in ChunkSet(r.chunks)
                  /\ \A other \in {"general", "math"} \ {d} :
                        \A r \in query_chunks(collection, <<"q">>, k, u, other, FALSE) :
                           f \notin ChunkSet(r.chunks)

\* C6. An id determines one fragment within a source and user scope: the ids an
\* ingest_text call assigns are ids of no other source_name and no other user,
\* so each of them holds, after the call, a fragment of the call's own
\* source_name and user.
C6_IdsScoped ==
    (last.op = "ingest_text" /\ last.status = 200) =>
        \A i \in 1..Len(last.ids) :
            /\ last.ids[i] \in DOMAIN collection
            /\ collection[last.ids[i]].source = last.req.source_name
            /\ collection[last.ids[i]].user_id = OrDefault(last.req.user_id, "global")

\* a search result that came from the web
WebInvoked == \E i \in 1..Len(last.chunks) : last.chunks[i].user_id = "web"

InScope(req) ==
    WhereMatches(collection,
                 WhereOf(IF req.user_id = Absent THEN "global" ELSE req.user_id),
                 WhereOf(IF req.domain = Absent THEN "general" ELSE req.domain))

\* C8, as claimed: a search that supplies no user_id and no domain applies no
\* filter: with room for every stored fragment (top_k = 5) it returns them all.
C8_NoFilterWhenOmitted ==
    (Searched /\ last.req.user_id = Absent /\ last.req.domain = Absent
        /\ Cardinality(DOMAIN collection) <= SEARCH_TOP_K)
      => ChunkSet(last.chunks) = {FragmentOf(collection[id]) : id \in DOMAIN collection}

\* C8, amended: a search is restricted, by equality, to each non-empty user_id
\* or domain of the request, where a request that leaves the field out has
\* user_id "global" and domain "general"; only a null or empty field applies no
\* filter.  The results are fragments in that scope, and all of them when top_k
\* has room.
C8_FilterAfterDefaults ==
    Searched =>
        /\ ChunkSet(last.chunks) \subseteq {FragmentOf(collection[id]) : id \in InScope(last.req)}
        /\ Len(last.chunks) = Min(SEARCH_TOP_K, Cardinality(InScope(last.req)))
        /\ Cardinality(InScope(last.req)) <= SEARCH_TOP_K
              => ChunkSet(last.chunks) = {FragmentOf(collection[id]) : id \in InScope(last.req)}
        /\ (last.req.user_id = None /\ last.req.domain = None)
              => InScope(last.req) = DOMAIN collection

\* a search that names no user_id and no domain left alice's fragment out
C8_Witness ==
    /\ Searched /\ last.req.user_id = Absent /\ last.req.domain = Absent
    /\ \E id \in DOMAIN collection : collection[id].user_id = "alice"
    /\ \E id \in DOMAIN collection : collection[id].user_id = "global"
    /\ Cardinality(DOMAIN collection) <= SEARCH_TOP_K
    /\ last.chunks # <<>>

\* RFC 4648: groups of four alphabet characters, the last padded with one or two "="
ValidBase64(s) ==
    /\ Len(s) % 4 = 0
    /\ \A i \in 1..Len(s) :
          \/ IsB64Char(s[i])
          \/ (s[i] = "=" /\ i > Len(s) - 2 /\ \A j \in (i + 1)..Len(s) : s[j] = "=")

\* C9. /ingest-file with base64_data that is not valid base64 ends in a client
\* error (400) and stores no fragment.
C9_InvalidBase64Rejected ==
    (last.op = "ingest_file" /\ ~ValidBase64(last.req.base64_data))
        => (last.status = 400 /\ last.count = 0 /\ last.ids = <<>>)

\* C10. When the store fails during a search, query_chunks returns an empty
\* list: /search completes normally with chunks an empty list, and the
\* collection is unchanged.
C10_StoreFailureDegrades ==
    [][(last'.op = "search" /\ last'.failed)
         => (last'.status = 200 /\ last'.nLocal = 0 /\ last'.chunks = <<>>
               /\ collection' = collection)]_vars

\* the store failed on a search it had fragments for
C10_Witness == last.op = "search" /\ last.failed /\ last.status = 200 /\ DOMAIN collection # {}

====
